---------------------------- MODULE Spec2Model ----------------------------
(***************************************************************************)
(* State-machine model of the therapyfinder crawl pipeline                 *)
(* (src/therapyfinder_scraper/scrape.py): the sliding-window RateLimiter,  *)
(* the semaphore gate, the per-city page walk with its two batch buffers,  *)
(* the per-state fan-out with its timeout, and main's batch loop.          *)
(*                                                                         *)
(* The program runs on one asyncio event loop: code between two awaits     *)
(* that can suspend is one atomic step.  pymongo and requests calls are    *)
(* synchronous, so a flush never suspends; the suspension points of a city *)
(* task are the semaphore, the rate limiter, the HTTP GET and the close of *)
(* the aiohttp session.                                                    *)
(*                                                                         *)
(* Eight specifications share the variables:                               *)
(*   Spec       the whole run over two states and five cities (one page    *)
(*              per city), for the gate and the orchestrator;              *)
(*   SpecPager  one city walked over several pages with a record cap, for  *)
(*              the paginator and the batch buffers;                       *)
(*   SpecCap    two states of sibling cities under a record cap of 1, for  *)
(*              failures, timeouts and the cap;                            *)
(*   SpecRerun  the crawl run twice against an origin that does not change;*)
(*   SpecUpsert process_clinicians_batch called on its own;                *)
(*   SpecRL     RateLimiter.acquire under concurrent callers and a clock;  *)
(*   SpecAlma   store_data of src/helloalma_scraper/scrape.py on its own;  *)
(*   SpecHeadway the page walk of src/headway_scraper/scrape.py.           *)
(***************************************************************************)
EXTENDS Naturals, Integers, Sequences, FiniteSets, Bags, TLC

VARIABLES
    \* configuration read from the environment (scrape.py:19-21)
    SCRAPE_LIMIT, MAX_CONCURRENT_REQUESTS, BATCH_SIZE,
    \* the environment of a run: the states the origin lists, the cities of
    \* each, how many pages a city has at most, how many items a page of
    \* each city has at most, and whether the origin and the database can
    \* fail during this run
    originStates, originCities, originPages, originItems, envFaults,
    \* main
    mainpc, STATES, batch_i, batch_states, total_records,
    total_states_processed, report,
    \* scrape_state_concurrent, one per state
    upc, tasks, uresult, cityErrors,
    \* scrape_city_concurrent, one per city
    wpc, page, total_city_records, raw_pages_batch, clinicians_batch,
    wresult,
    \* shared objects
    semaphore, clinicians, raw_pages,
    \* history of each city task
    requested, processed, lastResp, appended, flushLog, acquires, releases,
    \* RateLimiter and its callers
    max_calls, period, calls, lock, rlpc, rlnow, clock, admitted,
    \* what the run prints about its states, the documents of the clinicians
    \* collection, the number of the run against this database, the
    \* collection as the first run left it, and the calls made to
    \* process_clinicians_batch on their own
    printed, rows, run, rows1, callLog,
    \* AlmaTherapistScraper (src/helloalma_scraper/scrape.py): the storage
    \* mode, the list kept in memory, the pickled backup, the MongoDB
    \* collection, and the calls made to store_data
    use_mongodb, local_data, backup_file, collection, storeLog,
    \* main of src/headway_scraper/scrape.py: where it is, the state it
    \* walks, the page it asks for next, what scrape_state last returned,
    \* and for each state the pages requested and the responses to them
    hwpc, hw_i, hw_page, pagesLeft, hwRequested, hwSeen

confVars == <<SCRAPE_LIMIT, MAX_CONCURRENT_REQUESTS, BATCH_SIZE>>
originVars == <<originStates, originCities, originPages, originItems, envFaults>>
mainVars == <<mainpc, STATES, batch_i, batch_states, total_records,
              total_states_processed, report>>
unitVars == <<upc, tasks, uresult, cityErrors>>
workerVars == <<wpc, page, total_city_records, raw_pages_batch,
                clinicians_batch, wresult>>
sharedVars == <<semaphore, clinicians, raw_pages>>
histVars == <<requested, processed, lastResp, appended, flushLog, acquires,
              releases>>
rlVars == <<max_calls, period, calls, lock, rlpc, rlnow, clock, admitted>>
crawlVars == <<confVars, originVars, mainVars, unitVars, workerVars,
               sharedVars, histVars>>
extVars == <<printed, rows, run, rows1, callLog>>
almaVars == <<use_mongodb, local_data, backup_file, collection, storeLog>>
hwVars == <<hwpc, hw_i, hw_page, pagesLeft, hwRequested, hwSeen>>
sideVars == <<almaVars, hwVars>>
vars == <<crawlVars, rlVars, extVars, sideVars>>

---------------------------------------------------------------------------
(* Bounds of the model *)

\* pages a city of SpecPager has at most
PageBound == 3
\* items a page carries at most
MaxItems == 2
\* the record cap SpecPager also runs with (0 is "no cap")
CapBound == 3
\* the page guard the specification asks for
MaxPages == 2

\* calls of process_clinicians_batch SpecUpsert makes, and records a batch
\* of it holds at most
MaxCalls == 2
MaxBatch == 2

\* the last instant of the clock of SpecRL
MaxTime == 5

\* calls of store_data SpecAlma makes
MaxStores == 3
\* the largest totalPages a headway response reports
HwMaxTotal == 3

\* the tasks that call RateLimiter.acquire in SpecRL
Callers == {"t1", "t2", "t3"}
\* the (max_calls, period) pairs SpecRL builds the limiter with
LimiterShapes == {<<1, 2>>, <<2, 1>>, <<2, 2>>, <<2, 3>>, <<3, 2>>}

StateUniverse == {"s1", "s2"}
CityUniverse == {"c1", "c2", "c3", "c4", "c5"}

\* the directories the origin serves
CrawlStates == <<"s1", "s2">>
CrawlCities == [s \in StateUniverse |->
                  IF s = "s1" THEN <<"c1", "c2", "c3">> ELSE <<"c4">>]
WideCities == [s \in StateUniverse |->
                 IF s = "s1" THEN <<"c1", "c2", "c3">> ELSE <<"c4", "c5">>]
CapCities == [s \in StateUniverse |->
                IF s = "s1" THEN <<"c1", "c2">> ELSE <<"c4">>]
PagerStates == <<"s1">>
PagerCities == [s \in StateUniverse |->
                  IF s = "s1" THEN <<"c1">> ELSE <<>>]

---------------------------------------------------------------------------
(* Helpers *)

Range(s) == {s[i] : i \in 1..Len(s)}

RECURSIVE SumSeq(_)
SumSeq(s) == IF s = <<>> THEN 0 ELSE Head(s) + SumSeq(Tail(s))

RECURSIVE Flatten(_)
Flatten(ss) == IF ss = <<>> THEN <<>> ELSE Head(ss) \o Flatten(Tail(ss))

RECURSIVE BagOfSeq(_)
BagOfSeq(s) ==
    IF s = <<>> THEN EmptyBag ELSE SetToBag({Head(s)}) (+) BagOfSeq(Tail(s))

\* STATES[i : i + n] with a 0-based i, as Python slices
Slice(s, i, n) == SubSeq(s, i + 1, IF i + n < Len(s) THEN i + n ELSE Len(s))

\* a page item is TRUE when process_single_clinician maps it, FALSE when
\* it raises inside and returns None
ItemSeqs == UNION {[1..n -> BOOLEAN] : n \in 0..MaxItems}


\* what fetch_page can return: None, a response link_relationships chokes
\* on, or a page of items with or without links.next
Responses ==
    {[kind |-> "none", items |-> <<>>, next |-> FALSE],
     [kind |-> "malformed", items |-> <<>>, next |-> FALSE]}
    \cup [kind : {"page"}, items : ItemSeqs, next : BOOLEAN]

\* how a bulk write to MongoDB can end: every operation applied; the first
\* operation rejected and the others applied (ordered=False), which raises
\* BulkWriteError; or the server unreachable, nothing applied
WriteOutcomes == {"ok", "reject_first", "down"}

\* what get_cities_for_state can do: return the cities, return [] after a
\* RequestException, or raise (a payload without "data")
EnumOutcomes == {"ok", "empty", "raise"}

\* what main's start-up can meet
StartOutcomes == {"ok", "mongo_down", "states_fail", "states_raise"}

---------------------------------------------------------------------------
(* Pure functions of scrape.py *)

\* process_single_clinician: the record of item idx of a page, or None
None == [none |-> TRUE]
process_single_clinician(c, p, idx, mappable) ==
    IF mappable THEN [city |-> c, page |-> p, idx |-> idx] ELSE None

\* the natural key of a record
clinician_id(rec) == <<rec.city, rec.page, rec.idx>>

\* a faulty loop: the first item that cannot be mapped ends the page
RECURSIVE ProcessItemsStopOnError(_, _, _, _, _, _, _)
ProcessItemsStopOnError(items, i, c, p, batch, total, limit) ==
    IF i > Len(items) THEN [batch |-> batch, total |-> total]
    ELSE IF limit > 0 /\ total >= limit THEN [batch |-> batch, total |-> total]
    ELSE IF ~items[i] THEN [batch |-> batch, total |-> total]
    ELSE ProcessItemsStopOnError(items, i + 1, c, p,
                                 Append(batch, [city |-> c, page |-> p, idx |-> i]),
                                 total + 1, limit)

\* the loop over data["data"] (scrape.py:309-318), from item i on
RECURSIVE ProcessItems(_, _, _, _, _, _, _)
ProcessItems(items, i, c, p, batch, total, limit) ==
    IF i > Len(items) THEN [batch |-> batch, total |-> total]
    ELSE IF limit > 0 /\ total >= limit THEN [batch |-> batch, total |-> total]
    ELSE LET clinician_data == process_single_clinician(c, p, i, items[i])
         IN  IF clinician_data # None
             THEN ProcessItems(items, i + 1, c, p,
                               Append(batch, clinician_data), total + 1, limit)
             ELSE ProcessItems(items, i + 1, c, p, batch, total, limit)

\* a faulty write: a failure empties the collection
process_clinicians_wipe(store, batch, outcome) ==
    IF batch = <<>> THEN [store |-> store, ok |-> TRUE]
    ELSE IF outcome = "ok"
         THEN [store |-> store \cup {clinician_id(batch[i]) : i \in 1..Len(batch)},
               ok |-> TRUE]
    ELSE [store |-> {}, ok |-> FALSE]

\* process_clinicians_batch: the store after the bulk upsert and whether the
\* write raised; the exception is caught inside and 0 returned
process_clinicians_batch(store, batch, outcome) ==
    IF batch = <<>> THEN [store |-> store, ok |-> TRUE]
    ELSE IF outcome = "ok"
         THEN [store |-> store \cup {clinician_id(batch[i]) : i \in 1..Len(batch)},
               ok |-> TRUE]
    ELSE IF outcome = "reject_first"
         THEN [store |-> store \cup {clinician_id(batch[i]) : i \in 2..Len(batch)},
               ok |-> FALSE]
    ELSE [store |-> store, ok |-> FALSE]

\* store_raw_pages_batch: insert_many adds one document per snapshot (the
\* collection has no unique index, so it is a bag); any exception is caught
\* inside and 0 returned
store_raw_pages_batch(store, batch, outcome) ==
    IF batch = <<>> THEN store
    ELSE IF outcome = "ok" THEN store (+) BagOfSeq(batch)
    ELSE IF outcome = "reject_first" THEN store (+) BagOfSeq(Tail(batch))
    ELSE store

\* a document of the clinicians collection: the natural key, the fields
\* "$set" writes, and the created_at that "$setOnInsert" writes once
Doc(key, payload, created) ==
    [clinician_id |-> key, payload |-> payload, created_at |-> created]

\* a faulty write: an insert for the upsert
InsertOne(coll, op, now) == coll (+) SetToBag({Doc(op.key, op.payload, now)})

\* UpdateOne({"clinician_id": id}, {"$set": data, "$setOnInsert":
\* {"created_at": now}}, upsert=True) applied to the collection
\* (scrape.py:216-223): the document with the key gets the new fields and
\* keeps its created_at; without one, a document is inserted
UpdateOne(coll, op, now) ==
    LET hit == {d \in BagToSet(coll) : d.clinician_id = op.key}
    IN  IF hit = {}
        THEN coll (+) SetToBag({Doc(op.key, op.payload, now)})
        ELSE LET d == CHOOSE x \in hit : TRUE
             IN  (coll (-) SetToBag({d}))
                 (+) SetToBag({Doc(op.key, op.payload, d.created_at)})

RECURSIVE ApplyOps(_, _, _)
ApplyOps(coll, ops, now) ==
    IF ops = <<>> THEN coll
    ELSE ApplyOps(UpdateOne(coll, Head(ops), now), Tail(ops), now)

\* db.clinicians.bulk_write(operations, ordered=False) (scrape.py:227),
\* with ops in the order the server applies them
bulk_write(coll, ops, outcome, now) ==
    IF outcome = "ok" THEN ApplyOps(coll, ops, now)
    ELSE IF outcome = "reject_first" THEN ApplyOps(coll, Tail(ops), now)
    ELSE coll

\* the operations built from a batch of mapped records (scrape.py:214-224);
\* scraped_at and updated_at are the time of the run
Operations(batch, now) ==
    [i \in 1..Len(batch) |->
       [key |-> clinician_id(batch[i]), payload |-> [scraped_at |-> now]]]

\* process_clinicians_batch on the documents of the collection
process_clinicians_docs(coll, batch, outcome, now) ==
    IF batch = <<>> THEN coll
    ELSE bulk_write(coll, Operations(batch, now), outcome, now)

\* what process_clinicians_batch returns: nothing for an empty batch,
\* upserted_count + modified_count after the write, 0 after the exception
\* it catches (scrape.py:208-209, 228-232)
BatchReturn(ops, outcome) ==
    IF ops = <<>> THEN None
    ELSE IF outcome = "ok" THEN Len(ops)
    ELSE 0

\* a faulty loop head: the cap is not looked at
LoopHeadNoCap(total, limit) == "acquire"

\* the check at the head of the while loop (scrape.py:270-273): break to the
\* end of the session block, or go on to fetch_page
LoopHead(total, limit) ==
    IF limit > 0 /\ total >= limit THEN "closing" ELSE "acquire"

\* a faulty threshold test: ">" for ">="
ExceededBatchSize(batch, size) == Len(batch) > size

\* the threshold test of both buffers (scrape.py:321, 325)
ReachedBatchSize(batch, size) == Len(batch) >= size

\* a faulty flush: the list is not reset
AfterFlushKept(batch) == batch

\* the buffer after a threshold flush (scrape.py:323, 327)
AfterFlush(batch) == <<>>

\* a faulty link test: has_more_pages is never cleared
HasNextAlways(r) == TRUE

\* "next" in data.get("links", {}) (scrape.py:334)
HasNext(r) == r.next

\* a faulty cursor: a page is skipped
NextPageSkips(p) == p + 2

\* page += 1 (scrape.py:337)
NextPage(p) == p + 1


---------------------------------------------------------------------------
(* scrape_city_concurrent: one task per city *)

Holding == {"acquire", "get", "closing", "closingExc"}
Ended == {"returned", "raised", "cancelled"}

\* a faulty gate: nobody waits
GateAlwaysOpen == TRUE

\* asyncio.Semaphore(MAX_CONCURRENT_REQUESTS) has a free slot
\* (scrape.py:259, 457)
GateOpen == semaphore > 0

\* a faulty exit: the slot is kept
ReleaseLeaks(c) == UNCHANGED <<semaphore, releases>>

\* semaphore.release() in __aexit__ of "async with semaphore"
\* (scrape.py:259)
Release(c) ==
    /\ semaphore' = semaphore + 1
    /\ releases' = [releases EXCEPT ![c] = @ + 1]

\* "async with semaphore" admits the task; it sets up its locals, opens
\* the session, passes the first loop-head check and calls fetch_page,
\* which waits on the rate limiter (scrape.py:259-285, 239)
CityEnter(c) ==
    /\ wpc[c] = "gate"
    /\ GateOpen
    /\ semaphore' = semaphore - 1
    /\ acquires' = [acquires EXCEPT ![c] = @ + 1]
    /\ total_city_records' = [total_city_records EXCEPT ![c] = 0]
    /\ page' = [page EXCEPT ![c] = 1]
    /\ raw_pages_batch' = [raw_pages_batch EXCEPT ![c] = <<>>]
    /\ clinicians_batch' = [clinicians_batch EXCEPT ![c] = <<>>]
    /\ wpc' = [wpc EXCEPT ![c] = LoopHead(0, SCRAPE_LIMIT)]
    /\ UNCHANGED <<confVars, originVars, mainVars, unitVars, wresult,
                   clinicians, raw_pages, requested, processed, lastResp,
                   appended, flushLog, releases, rlVars, sideVars, extVars>>

\* rate_limiter.acquire() returns and session.get issues the request for
\* the current page (scrape.py:239-242).  The limiter's own state is the
\* subject of SpecRL; here it only delays the request.
FetchIssue(c) ==
    /\ wpc[c] = "acquire"
    /\ wpc' = [wpc EXCEPT ![c] = "get"]
    /\ requested' = [requested EXCEPT ![c] = Append(@, page[c])]
    /\ UNCHANGED <<confVars, originVars, mainVars, unitVars, page,
                   total_city_records, raw_pages_batch, clinicians_batch,
                   wresult, sharedVars, processed, lastResp, appended, flushLog,
                   acquires, releases, rlVars, sideVars, extVars>>

\* the snapshot appended for a page (scrape.py:299-306)
raw_page(s, c, p) == [state |-> s, city |-> c, page |-> p]

StateOf(c) == CHOOSE s \in StateUniverse : c \in Range(originCities[s])

\* fetch_page returns r and the loop body runs to its next suspension
\* (scrape.py:285-337, then 270-273 and 285 again).  ro and co are how the
\* two threshold writes end, should they happen.
FetchReturn(c, r, ro, co) ==
    /\ wpc[c] = "get"
    /\ r.kind # "page" => envFaults
    /\ ro # "ok" \/ co # "ok" => envFaults
    /\ Len(r.items) <= originItems[c]
    /\ r.next => page[c] < originPages
    /\ IF r.kind = "none"
       THEN \* "if not data": break
            /\ wpc' = [wpc EXCEPT ![c] = "closing"]
            /\ lastResp' = [lastResp EXCEPT ![c] = "none"]
            /\ UNCHANGED <<page, total_city_records, raw_pages_batch,
                           clinicians_batch, clinicians, raw_pages,
                           processed, appended, flushLog, rows>>
       ELSE IF r.kind = "malformed"
       THEN \* link_relationships raises KeyError, nothing catches it
            /\ wpc' = [wpc EXCEPT ![c] = "closingExc"]
            /\ lastResp' = [lastResp EXCEPT ![c] = "malformed"]
            /\ UNCHANGED <<page, total_city_records, raw_pages_batch,
                           clinicians_batch, clinicians, raw_pages,
                           processed, appended, flushLog, rows>>
       ELSE IF r.items = <<>>
       THEN \* "if not data.get('data')": break
            /\ wpc' = [wpc EXCEPT ![c] = "closing"]
            /\ lastResp' = [lastResp EXCEPT ![c] = "empty"]
            /\ UNCHANGED <<page, total_city_records, raw_pages_batch,
                           clinicians_batch, clinicians, raw_pages,
                           processed, appended, flushLog, rows>>
       ELSE LET raws == Append(raw_pages_batch[c],
                               raw_page(StateOf(c), c, page[c]))
                mapped == ProcessItems(r.items, 1, c, page[c],
                                       clinicians_batch[c],
                                       total_city_records[c], SCRAPE_LIMIT)
                rawFull == ReachedBatchSize(raws, BATCH_SIZE)
                cliFull == ReachedBatchSize(mapped.batch, BATCH_SIZE)
                written == process_clinicians_batch(clinicians, mapped.batch, co)
            IN  /\ raw_pages' = IF rawFull
                                THEN store_raw_pages_batch(raw_pages, raws, ro)
                                ELSE raw_pages
                /\ raw_pages_batch' = [raw_pages_batch EXCEPT
                                         ![c] = IF rawFull THEN AfterFlush(raws)
                                                ELSE raws]
                /\ clinicians' = IF cliFull THEN written.store ELSE clinicians
                /\ rows' = IF cliFull
                           THEN process_clinicians_docs(rows, mapped.batch, co, run)
                           ELSE rows
                /\ clinicians_batch' = [clinicians_batch EXCEPT
                                          ![c] = IF cliFull
                                                 THEN AfterFlush(mapped.batch)
                                                 ELSE mapped.batch]
                /\ appended' = [appended EXCEPT
                                  ![c] = @ \o SubSeq(mapped.batch,
                                                     Len(clinicians_batch[c]) + 1,
                                                     Len(mapped.batch))]
                /\ flushLog' = [flushLog EXCEPT
                                  ![c] = IF cliFull
                                         THEN Append(@, [kind |-> "threshold",
                                                         batch |-> mapped.batch,
                                                         ok |-> written.ok,
                                                         items |-> Len(r.items)])
                                         ELSE @]
                /\ total_city_records' = [total_city_records EXCEPT
                                            ![c] = mapped.total]
                /\ processed' = [processed EXCEPT ![c] = @ + 1]
                /\ lastResp' = [lastResp EXCEPT
                                  ![c] = IF r.next THEN "more" ELSE "last"]
                /\ IF HasNext(r)
                   THEN /\ page' = [page EXCEPT ![c] = NextPage(@)]
                        /\ wpc' = [wpc EXCEPT
                                     ![c] = LoopHead(mapped.total, SCRAPE_LIMIT)]
                   ELSE /\ page' = page
                        /\ wpc' = [wpc EXCEPT ![c] = "closing"]
    /\ UNCHANGED <<confVars, originVars, mainVars, unitVars, wresult,
                   semaphore, requested, acquires, releases, rlVars, sideVars,
                   printed, run, rows1, callLog>>

\* the session is closed, the remainders of both buffers are written, the
\* slot is released and the count returned (scrape.py:339-348)
CityFinish(c, ro, co) ==
    /\ wpc[c] = "closing"
    /\ ro # "ok" \/ co # "ok" => envFaults
    /\ LET written == process_clinicians_batch(clinicians, clinicians_batch[c], co)
       IN  /\ raw_pages' = store_raw_pages_batch(raw_pages, raw_pages_batch[c], ro)
           /\ clinicians' = written.store
           /\ rows' = process_clinicians_docs(rows, clinicians_batch[c], co, run)
           /\ flushLog' = [flushLog EXCEPT
                             ![c] = IF clinicians_batch[c] # <<>>
                                    THEN Append(@, [kind |-> "final",
                                                    batch |-> clinicians_batch[c],
                                                    ok |-> written.ok,
                                                    items |-> 0])
                                    ELSE @]
    /\ Release(c)
    /\ wresult' = [wresult EXCEPT ![c] = total_city_records[c]]
    /\ wpc' = [wpc EXCEPT ![c] = "returned"]
    \* the frame and its two lists are gone
    /\ raw_pages_batch' = [raw_pages_batch EXCEPT ![c] = <<>>]
    /\ clinicians_batch' = [clinicians_batch EXCEPT ![c] = <<>>]
    /\ UNCHANGED <<confVars, originVars, mainVars, unitVars, page,
                   total_city_records, requested, processed, lastResp,
                   appended, acquires, rlVars, sideVars, printed, run, rows1, callLog>>

\* the exception leaves both "async with" blocks: the session is closed,
\* the slot released, and the task ends with the exception as its result
CityRaise(c) ==
    /\ wpc[c] = "closingExc"
    /\ Release(c)
    /\ wpc' = [wpc EXCEPT ![c] = "raised"]
    /\ raw_pages_batch' = [raw_pages_batch EXCEPT ![c] = <<>>]
    /\ clinicians_batch' = [clinicians_batch EXCEPT ![c] = <<>>]
    /\ UNCHANGED <<confVars, originVars, mainVars, unitVars, page,
                   total_city_records, wresult, clinicians, raw_pages,
                   requested, processed, lastResp, appended, flushLog,
                   acquires, rlVars, sideVars, extVars>>


---------------------------------------------------------------------------
(* scrape_state_concurrent: one coroutine per state *)

\* the lines the run prints about a state
\* "No cities found for ..., skipping" (scrape.py:392)
SkippedMessage(s) == <<"no_cities", s>>
\* "Completed state: ..." (scrape.py:433)
CompletedMessage(s) == <<"completed_state", s>>
\* "Error processing state ..." (scrape.py:487)
StateErrorMessage(s) == <<"state_error", s>>

\* a faulty report: the timeout is printed as a completion
TimeoutReportedCompleted(s) == <<"completed_state", s>>

\* "Timeout processing state ..." (scrape.py:422)
TimeoutMessage(s) == <<"timeout", s>>

\* sum(task.result() for task in tasks if task.done()) (scrape.py:400)
DoneSum(ts) ==
    SumSeq([i \in 1..Len(ts) |->
              IF wpc[ts[i]] = "returned" THEN wresult[ts[i]] ELSE 0])

\* the loop that creates one task per city (scrape.py:396-413), from city
\* i on; no task it created has run yet when it checks the cap
RECURSIVE CreateTasks(_, _, _)
CreateTasks(cities, i, ts) ==
    IF i > Len(cities) THEN ts
    ELSE IF SCRAPE_LIMIT > 0 /\ DoneSum(ts) >= SCRAPE_LIMIT THEN ts
    ELSE CreateTasks(cities, i + 1, Append(ts, cities[i]))

\* get_cities_for_state (scrape.py:168-189) under enumeration outcome e
get_cities_for_state(s, e) == IF e = "ok" THEN originCities[s] ELSE <<>>

\* a faulty start: an empty list of cities does not end the state
StateAfterLaunchNoSkip(s, e) == IF e = "raise" THEN "error" ELSE "gather"

\* where scrape_state_concurrent stands when it first suspends or returns
StateAfterLaunch(s, e) ==
    IF e = "raise" THEN "error"
    ELSE IF get_cities_for_state(s, e) = <<>> THEN "skipped"
    ELSE "gather"

\* a faulty timeout: the state gives up but its city tasks run on
StateTimeoutNoCancel(s) ==
    /\ upc[s] = "gather"
    /\ \E c \in Range(tasks[s]) : wpc[c] \notin Ended
    /\ upc' = [upc EXCEPT ![s] = "timeout"]
    /\ uresult' = [uresult EXCEPT ![s] = 0]
    /\ printed' = printed \cup {<<"timeout", s>>}
    /\ UNCHANGED <<confVars, originVars, mainVars, tasks, cityErrors,
                   workerVars, sharedVars, histVars, rlVars, sideVars, rows, run,
                   rows1, callLog>>

\* wait_for raises TimeoutError after 3600 s with tasks still running:
\* gather is cancelled, every running task of the state gets CancelledError
\* at its suspension point and unwinds, and the state returns 0
\* (scrape.py:416-423)
StateTimeout(s) ==
    /\ upc[s] = "gather"
    /\ \E c \in Range(tasks[s]) : wpc[c] \notin Ended
    /\ LET live == {c \in Range(tasks[s]) : wpc[c] \notin Ended}
           inside == {c \in live : wpc[c] \in Holding}
       IN  /\ wpc' = [c \in CityUniverse |->
                        IF c \in live THEN "cancelled" ELSE wpc[c]]
           /\ semaphore' = semaphore + Cardinality(inside)
           /\ releases' = [c \in CityUniverse |->
                             IF c \in inside THEN releases[c] + 1
                             ELSE releases[c]]
           /\ raw_pages_batch' = [c \in CityUniverse |->
                                    IF c \in live THEN <<>>
                                    ELSE raw_pages_batch[c]]
           /\ clinicians_batch' = [c \in CityUniverse |->
                                     IF c \in live THEN <<>>
                                     ELSE clinicians_batch[c]]
    /\ upc' = [upc EXCEPT ![s] = "timeout"]
    /\ uresult' = [uresult EXCEPT ![s] = 0]
    /\ printed' = printed \cup {TimeoutMessage(s)}
    /\ UNCHANGED <<confVars, originVars, mainVars, tasks, cityErrors, page,
                   total_city_records, wresult, clinicians, raw_pages,
                   requested, processed, lastResp, appended, flushLog,
                   acquires, rlVars, sideVars, rows, run, rows1, callLog>>

\* gather returns: exceptions are printed, counts are summed
\* (scrape.py:425-434)
StateGathered(s) ==
    /\ upc[s] = "gather"
    /\ \A c \in Range(tasks[s]) : wpc[c] \in {"returned", "raised"}
    /\ cityErrors' = cityErrors \cup {c \in Range(tasks[s]) : wpc[c] = "raised"}
    /\ uresult' = [uresult EXCEPT ![s] = DoneSum(tasks[s])]
    /\ upc' = [upc EXCEPT ![s] = "done"]
    /\ printed' = printed \cup {CompletedMessage(s)}
    /\ UNCHANGED <<confVars, originVars, mainVars, tasks, workerVars,
                   sharedVars, histVars, rlVars, sideVars, rows, run, rows1, callLog>>

---------------------------------------------------------------------------
(* main *)

UnitEnded == {"done", "skipped", "timeout", "error"}

\* wait_for_mongodb, ensure_indexes, get_all_states, the semaphore and the
\* range of the batch loop (scrape.py:440-463)
MainStart(o, states) ==
    /\ mainpc = "start"
    /\ o # "ok" => envFaults
    /\ IF o = "mongo_down"
       THEN /\ mainpc' = "exit1"
            /\ report' = "exit1"
            /\ UNCHANGED <<STATES, semaphore>>
       ELSE IF o = "states_raise"
       THEN /\ mainpc' = "closed"
            /\ report' = "crashed"
            /\ UNCHANGED <<STATES, semaphore>>
       ELSE IF o = "states_fail" \/ states = <<>>
       THEN /\ mainpc' = "closed"
            /\ report' = "no_states"
            /\ UNCHANGED <<STATES, semaphore>>
       ELSE /\ STATES' = states
            /\ semaphore' = MAX_CONCURRENT_REQUESTS
            /\ IF MAX_CONCURRENT_REQUESTS \div 2 = 0
               THEN \* range() arg 3 must not be zero
                    /\ mainpc' = "closed"
                    /\ report' = "crashed"
               ELSE /\ mainpc' = "loop"
                    /\ report' = report
    /\ UNCHANGED <<confVars, originVars, batch_i, batch_states, total_records,
                   total_states_processed, unitVars, workerVars, clinicians,
                   raw_pages, histVars, rlVars, sideVars, extVars>>

\* one turn of the batch loop up to its gather: every state of the batch
\* runs scrape_state_concurrent to its wait_for (scrape.py:463-482, 386-420)
MainLaunchBatch(enum) ==
    /\ mainpc = "loop"
    /\ batch_i < Len(STATES)
    /\ ~(SCRAPE_LIMIT > 0 /\ total_records >= SCRAPE_LIMIT)
    /\ LET batch == Slice(STATES, batch_i, MAX_CONCURRENT_REQUESTS \div 2)
           launched == [s \in StateUniverse |->
                          IF s \in Range(batch) /\ StateAfterLaunch(s, enum[s]) = "gather"
                          THEN CreateTasks(get_cities_for_state(s, enum[s]), 1, <<>>)
                          ELSE <<>>]
       IN  /\ DOMAIN enum = Range(batch)
           /\ (\E s \in Range(batch) : enum[s] # "ok") => envFaults
           /\ batch_states' = batch
           /\ upc' = [s \in StateUniverse |->
                        IF s \in Range(batch) THEN StateAfterLaunch(s, enum[s])
                        ELSE upc[s]]
           /\ tasks' = [s \in StateUniverse |->
                          IF s \in Range(batch) THEN launched[s] ELSE tasks[s]]
           /\ uresult' = [s \in StateUniverse |->
                            IF s \in Range(batch) THEN 0 ELSE uresult[s]]
           /\ wpc' = [c \in CityUniverse |->
                        IF \E s \in Range(batch) : c \in Range(launched[s])
                        THEN "gate" ELSE wpc[c]]
           /\ printed' = printed \cup
                 {SkippedMessage(s) : s \in {x \in Range(batch) :
                                     StateAfterLaunch(x, enum[x]) = "skipped"}}
    /\ mainpc' = "batch"
    /\ UNCHANGED <<confVars, originVars, STATES, batch_i, total_records,
                   total_states_processed, report, cityErrors, page,
                   total_city_records, raw_pages_batch, clinicians_batch,
                   wresult, sharedVars, histVars, rlVars, sideVars, rows, run, rows1,
                   callLog>>

\* the status the process exits with: sys.exit(1) when MongoDB never
\* answered, and the end of asyncio.run(main()) in every other case
\* (scrape.py:441-443, 577)
ExitStatus == IF report = "exit1" THEN 1 ELSE 0

\* gather of the batch returns and its results are added up
\* (scrape.py:480-490)
MainBatchDone ==
    /\ mainpc = "batch"
    /\ \A s \in Range(batch_states) : upc[s] \in UnitEnded
    /\ LET good == [i \in 1..Len(batch_states) |-> upc[batch_states[i]] # "error"]
       IN  /\ total_records' = total_records +
                 SumSeq([i \in 1..Len(batch_states) |->
                           IF good[i] THEN uresult[batch_states[i]] ELSE 0])
           /\ total_states_processed' = total_states_processed +
                 SumSeq([i \in 1..Len(batch_states) |-> IF good[i] THEN 1 ELSE 0])
    /\ batch_i' = batch_i + MAX_CONCURRENT_REQUESTS \div 2
    /\ mainpc' = "loop"
    /\ printed' = printed \cup
          {StateErrorMessage(s) : s \in {x \in Range(batch_states) :
                                          upc[x] = "error"}}
    /\ UNCHANGED <<confVars, originVars, STATES, batch_states, report,
                   unitVars, workerVars, sharedVars, histVars, rlVars, sideVars, rows,
                   run, rows1, callLog>>

\* the loop ends, by exhaustion or by the global cap; the totals and the
\* statistics are printed and the client closed (scrape.py:463-468, 492-506)
MainFinish ==
    /\ mainpc = "loop"
    /\ \/ batch_i >= Len(STATES)
       \/ SCRAPE_LIMIT > 0 /\ total_records >= SCRAPE_LIMIT
    /\ mainpc' = "closed"
    /\ report' = "completed"
    /\ UNCHANGED <<confVars, originVars, STATES, batch_i, batch_states,
                   total_records, total_states_processed, unitVars,
                   workerVars, sharedVars, histVars, rlVars, sideVars, extVars>>

---------------------------------------------------------------------------
(* AlmaTherapistScraper.store_data (src/helloalma_scraper/scrape.py).  A   *)
(* processed record is its "Sr. NO", which may be missing, and its Name,   *)
(* which stands for the other columns.                                     *)

AlmaKeys == {"k1", "k2"}
AlmaNames == {"a", "b"}
AlmaRecords == [sr_no : AlmaKeys \cup {"absent"}, Name : AlmaNames]

\* the lists store_data can have written to the backup file: records with
\* a key, no key twice
Backups ==
    {<<>>}
    \cup {<<r>> : r \in [sr_no : AlmaKeys, Name : AlmaNames]}
    \cup {<<r1, r2>> : r1 \in [sr_no : {"k1"}, Name : AlmaNames],
                       r2 \in [sr_no : {"k2"}, Name : AlmaNames]}
    \cup {<<r2, r1>> : r1 \in [sr_no : {"k1"}, Name : AlmaNames],
                       r2 \in [sr_no : {"k2"}, Name : AlmaNames]}

\* a faulty local store: the record is appended, nothing is removed
LocalAppend(data, rec) == Append(data, rec)

\* the local branch of store_data (scrape.py:167-172): the records with
\* the "Sr. NO" of the new one are removed and the new one is appended
LocalUpsert(data, rec) ==
    Append(SelectSeq(data, LAMBDA d : d.sr_no # rec.sr_no), rec)

\* collection.update_one({"Sr. NO": ...}, {"$set": processed_data},
\* upsert=True) (scrape.py:151-155): the first document with the key takes
\* the fields of the record; without one the record is inserted
update_one(coll, rec) ==
    LET hit == {i \in 1..Len(coll) : coll[i].sr_no = rec.sr_no}
    IN  IF hit = {} THEN Append(coll, rec)
        ELSE LET i == CHOOSE x \in hit : \A y \in hit : x <= y
             IN  [coll EXCEPT ![i] = rec]

\* store_data(processed_data) (scrape.py:139-182).  processed_data["Sr. NO"]
\* raises KeyError without the key and update_one can raise: both are
\* caught and False is returned with nothing stored.  save_local_backup
\* catches its own failure (scrape.py:128-137), the list in memory is
\* updated all the same.
store_data(rec, outcome) ==
    /\ Len(storeLog) < MaxStores
    /\ outcome = "db_error" => use_mongodb
    /\ outcome = "save_error" => ~use_mongodb
    /\ IF rec.sr_no = "absent" \/ outcome = "db_error"
       THEN /\ storeLog' = Append(storeLog, [rec |-> rec, ok |-> FALSE])
            /\ UNCHANGED <<local_data, backup_file, collection>>
       ELSE /\ storeLog' = Append(storeLog, [rec |-> rec, ok |-> TRUE])
            /\ IF use_mongodb
               THEN /\ collection' = update_one(collection, rec)
                    /\ UNCHANGED <<local_data, backup_file>>
               ELSE /\ local_data' = LocalUpsert(local_data, rec)
                    /\ backup_file' = IF outcome = "save_error"
                                      THEN backup_file
                                      ELSE LocalUpsert(local_data, rec)
                    /\ collection' = collection
    /\ UNCHANGED <<use_mongodb, crawlVars, rlVars, extVars, hwVars>>

---------------------------------------------------------------------------
(* main and scrape_state of src/headway_scraper/scrape.py.  A response to  *)
(* a page request is a JSON object with or without "totalPages", a failed  *)
(* page load, a page without a <pre> tag, text that is not JSON, or JSON   *)
(* that is not an object.                                                  *)

\* the first states of STATES (scrape.py:29-31)
HW_STATES == <<"alaska", "montana">>

HwFailures == {"goto_fails", "no_pre", "bad_json"}

HwResponses ==
    [kind : {"ok"}, totalPages : 0..HwMaxTotal]
    \cup [kind : {"no_total", "not_object"} \cup HwFailures, totalPages : {0}]

\* data.get("totalPages", 1) (scrape.py:327)
TotalPagesOf(r) == IF r.kind = "no_total" THEN 1 ELSE r.totalPages

\* a faulty return value: one page too many is left
scrape_state_one_more(r, currentPage) ==
    IF r.kind \in HwFailures THEN 0 ELSE TotalPagesOf(r) - currentPage + 1

\* what scrape_state(state, currentPage) returns: 0 after a failed load, a
\* missing <pre> or a parse error (scrape.py:302-322), else
\* totalPages - currentPage (scrape.py:327, 372)
scrape_state(r, currentPage) ==
    IF r.kind \in HwFailures THEN 0 ELSE TotalPagesOf(r) - currentPage

\* one turn of main's while loop (scrape.py:379-381) and, when it was the
\* last for the state, the step of the for loop to the next state with
\* page = 1 and pagesLeft = 1 (scrape.py:376-378, 382).  JSON that is not an
\* object makes data.get raise (scrape.py:324): nothing catches it and
\* main ends.
HeadwayMain(r) ==
    /\ hwpc = "walk"
    /\ LET s == HW_STATES[hw_i]
           left == scrape_state(r, hw_page)
       IN  /\ hwRequested' = [hwRequested EXCEPT ![s] = Append(@, hw_page)]
           /\ hwSeen' = [hwSeen EXCEPT ![s] = Append(@, r)]
           /\ IF r.kind = "not_object"
              THEN /\ hwpc' = "crashed"
                   /\ UNCHANGED <<hw_i, hw_page, pagesLeft>>
              ELSE IF left > 0
              THEN /\ pagesLeft' = left
                   /\ hw_page' = hw_page + 1
                   /\ UNCHANGED <<hwpc, hw_i>>
              ELSE IF hw_i < Len(HW_STATES)
              THEN /\ hw_i' = hw_i + 1
                   /\ hw_page' = 1
                   /\ pagesLeft' = 1
                   /\ hwpc' = hwpc
              ELSE /\ hwpc' = "done"
                   /\ pagesLeft' = left
                   /\ hw_page' = hw_page + 1
                   /\ hw_i' = hw_i
    /\ UNCHANGED <<crawlVars, rlVars, extVars, almaVars>>

---------------------------------------------------------------------------
(* The crawl specifications *)

\* the start of main of src/headway_scraper/scrape.py: the first state,
\* page = 1, pagesLeft = 1 (scrape.py:375-378)
InitHeadway ==
    /\ hwpc = "walk"
    /\ hw_i = 1
    /\ hw_page = 1
    /\ pagesLeft = 1
    /\ hwRequested = [s \in Range(HW_STATES) |-> <<>>]
    /\ hwSeen = [s \in Range(HW_STATES) |-> <<>>]

\* AlmaTherapistScraper.__init__ (scrape.py:56-89): with MongoDB the list
\* is empty, without it the list is the backup that load_local_backup
\* reads, a list store_data wrote
InitAlma ==
    /\ use_mongodb \in BOOLEAN
    /\ backup_file \in Backups
    /\ local_data = IF use_mongodb THEN <<>> ELSE backup_file
    /\ collection \in IF use_mongodb THEN Backups ELSE {<<>>}
    /\ storeLog = <<>>

\* a scraper in local mode with no backup file, and no call yet
InitAlmaEmpty ==
    /\ use_mongodb = FALSE
    /\ backup_file = <<>>
    /\ local_data = <<>>
    /\ collection = <<>>
    /\ storeLog = <<>>

InitCrawl ==
    /\ mainpc = "start"
    /\ STATES = <<>>
    /\ batch_i = 0
    /\ batch_states = <<>>
    /\ total_records = 0
    /\ total_states_processed = 0
    /\ report = "none"
    /\ upc = [s \in StateUniverse |-> "pending"]
    /\ tasks = [s \in StateUniverse |-> <<>>]
    /\ uresult = [s \in StateUniverse |-> 0]
    /\ cityErrors = {}
    /\ wpc = [c \in CityUniverse |-> "none"]
    /\ page = [c \in CityUniverse |-> 1]
    /\ total_city_records = [c \in CityUniverse |-> 0]
    /\ raw_pages_batch = [c \in CityUniverse |-> <<>>]
    /\ clinicians_batch = [c \in CityUniverse |-> <<>>]
    /\ wresult = [c \in CityUniverse |-> 0]
    /\ semaphore = 0
    /\ clinicians = {}
    /\ raw_pages = EmptyBag
    /\ requested = [c \in CityUniverse |-> <<>>]
    /\ processed = [c \in CityUniverse |-> 0]
    /\ lastResp = [c \in CityUniverse |-> "nothing"]
    /\ appended = [c \in CityUniverse |-> <<>>]
    /\ flushLog = [c \in CityUniverse |-> <<>>]
    /\ acquires = [c \in CityUniverse |-> 0]
    /\ releases = [c \in CityUniverse |-> 0]
    /\ printed = {}
    /\ rows = EmptyBag
    /\ run = 1
    /\ rows1 = EmptyBag
    /\ callLog = <<>>

InitRun ==
    /\ InitCrawl
    /\ InitHeadway
    /\ InitAlmaEmpty

\* rate_limiter = RateLimiter(max_calls=10, period=1.0) (scrape.py:51)
InitLimiterIdle ==
    /\ max_calls = 10
    /\ period = 1
    /\ calls = <<>>
    /\ lock = "free"
    /\ rlpc = [t \in Callers |-> "idle"]
    /\ rlnow = [t \in Callers |-> 0]
    /\ clock = 0
    /\ admitted = <<>>

\* the whole run over two states, without a record cap: either states
\* taken one at a time (batches of 1) against an origin and a database that
\* can fail, or both states at once (batches of 2) through a gate of 4
\* with five cities and no failure but the timeout
Init ==
    /\ SCRAPE_LIMIT = 0
    /\ BATCH_SIZE = 2
    /\ originStates = CrawlStates
    /\ originPages = 1
    /\ \/ /\ MAX_CONCURRENT_REQUESTS \in {1, 2}
          /\ originCities = CrawlCities
          /\ originItems = [c \in CityUniverse |->
                              IF c \in {"c1", "c4"} THEN 1 ELSE 0]
          /\ envFaults = TRUE
       \/ /\ MAX_CONCURRENT_REQUESTS = 4
          /\ originCities = WideCities
          /\ originItems = [c \in CityUniverse |-> 0]
          /\ envFaults = FALSE
    /\ InitRun
    /\ InitLimiterIdle

\* one city walked in depth
InitPager ==
    /\ SCRAPE_LIMIT \in {0, CapBound}
    /\ MAX_CONCURRENT_REQUESTS = 2
    /\ BATCH_SIZE = 2
    /\ originStates = PagerStates
    /\ originCities = PagerCities
    /\ originPages = PageBound
    /\ originItems = [c \in CityUniverse |-> MaxItems]
    /\ envFaults = TRUE
    /\ InitRun
    /\ InitLimiterIdle

\* two states taken one at a time under a record cap of 1, through a gate
\* of 2: two sibling cities in the first state and one city in the second,
\* each with one item a page, a batch size of 1 so that a record is written
\* as soon as its page is mapped, and an origin and a database that can fail
InitCap ==
    /\ SCRAPE_LIMIT = 1
    /\ MAX_CONCURRENT_REQUESTS = 2
    /\ BATCH_SIZE = 1
    /\ originStates = CrawlStates
    /\ originCities = CapCities
    /\ originPages = 1
    /\ originItems = [c \in CityUniverse |->
                        IF c \in {"c1", "c2", "c4"} THEN 1 ELSE 0]
    /\ envFaults = TRUE
    /\ InitRun
    /\ InitLimiterIdle

Next ==
    \/ \E o \in StartOutcomes : MainStart(o, originStates)
    \/ \E B \in SUBSET StateUniverse : \E enum \in [B -> EnumOutcomes] :
          MainLaunchBatch(enum)
    \/ MainBatchDone
    \/ MainFinish
    \/ \E s \in StateUniverse : StateTimeout(s)
    \/ \E s \in StateUniverse : StateGathered(s)
    \/ \E c \in CityUniverse : CityEnter(c)
    \/ \E c \in CityUniverse : FetchIssue(c)
    \/ \E c \in CityUniverse : \E r \in Responses :
          \E ro \in WriteOutcomes : \E co \in WriteOutcomes :
             FetchReturn(c, r, ro, co)
    \/ \E c \in CityUniverse : \E ro \in WriteOutcomes : \E co \in WriteOutcomes :
          CityFinish(c, ro, co)
    \/ \E c \in CityUniverse : CityRaise(c)

Spec == Init /\ [][Next]_vars
SpecPager == InitPager /\ [][Next]_vars
SpecCap == InitCap /\ [][Next]_vars


---------------------------------------------------------------------------
(* RateLimiter (scrape.py:24-47) under concurrent callers.  Time is a     *)
(* discrete clock; a caller is idle, asleep inside acquire with the lock  *)
(* held, or about to stamp its admission.                                 *)

\* the timestamps still inside the period (scrape.py:37-39)
RECURSIVE Recent(_, _, _)
Recent(cs, now, per) ==
    IF cs = <<>> THEN <<>>
    ELSE IF now - Head(cs) < per THEN <<Head(cs)>> \o Recent(Tail(cs), now, per)
    ELSE Recent(Tail(cs), now, per)

\* a faulty eviction: the oldest timestamp stays
DropNothing(cs) == cs

\* self.calls = self.calls[1:] (scrape.py:45)
DropOldest(cs) == Tail(cs)

\* a faulty sleep_time: one tick short
SleepTimeShort(now, oldest, per) == per - (now - oldest) - 1

\* sleep_time (scrape.py:42)
SleepTime(now, oldest, per) == per - (now - oldest)

\* acquire takes the lock, reads the clock, drops the expired timestamps
\* and, with the window full, starts to sleep; with room, or nothing to
\* sleep for, it goes on to line 47 (scrape.py:34-45)
LimiterCheck(t) ==
    /\ rlpc[t] = "idle"
    /\ lock = "free"
    /\ lock' = t
    /\ rlnow' = [rlnow EXCEPT ![t] = clock]
    /\ LET kept == Recent(calls, clock, period)
       IN  IF Len(kept) >= max_calls
           THEN IF SleepTime(clock, kept[1], period) > 0
                THEN /\ calls' = kept
                     /\ rlpc' = [rlpc EXCEPT ![t] = "sleep"]
                ELSE /\ calls' = DropOldest(kept)
                     /\ rlpc' = [rlpc EXCEPT ![t] = "stamp"]
           ELSE /\ calls' = kept
                /\ rlpc' = [rlpc EXCEPT ![t] = "stamp"]
    /\ UNCHANGED <<max_calls, period, clock, admitted, crawlVars, extVars, sideVars>>

\* asyncio.sleep(sleep_time) is over: the oldest timestamp is dropped
\* (scrape.py:44-45)
LimiterWake(t) ==
    /\ rlpc[t] = "sleep"
    /\ clock >= rlnow[t] + SleepTime(rlnow[t], calls[1], period)
    /\ calls' = DropOldest(calls)
    /\ rlpc' = [rlpc EXCEPT ![t] = "stamp"]
    /\ UNCHANGED <<max_calls, period, lock, rlnow, clock, admitted, crawlVars, extVars, sideVars>>

\* self.calls.append(time.time()) and the lock is released
\* (scrape.py:47, 34)
LimiterStamp(t) ==
    /\ rlpc[t] = "stamp"
    /\ calls' = Append(calls, clock)
    /\ admitted' = Append(admitted, clock)
    /\ lock' = "free"
    /\ rlpc' = [rlpc EXCEPT ![t] = "idle"]
    /\ rlnow' = [rlnow EXCEPT ![t] = 0]
    /\ UNCHANGED <<max_calls, period, clock, crawlVars, extVars, sideVars>>

\* the caller is cancelled in its sleep: the lock is released and it is
\* not admitted
LimiterCancel(t) ==
    /\ rlpc[t] = "sleep"
    /\ lock' = "free"
    /\ rlpc' = [rlpc EXCEPT ![t] = "idle"]
    /\ rlnow' = [rlnow EXCEPT ![t] = 0]
    /\ UNCHANGED <<max_calls, period, calls, clock, admitted, crawlVars, extVars, sideVars>>

\* time passes
Tick ==
    /\ clock < MaxTime
    /\ clock' = clock + 1
    /\ UNCHANGED <<max_calls, period, calls, lock, rlpc, rlnow, admitted,
                   crawlVars, extVars, sideVars>>

InitRL ==
    /\ \E shape \in LimiterShapes : max_calls = shape[1] /\ period = shape[2]
    /\ calls = <<>>
    /\ lock = "free"
    /\ rlpc = [t \in Callers |-> "idle"]
    /\ rlnow = [t \in Callers |-> 0]
    /\ clock = 0
    /\ admitted = <<>>
    /\ SCRAPE_LIMIT = 0
    /\ MAX_CONCURRENT_REQUESTS = 2
    /\ BATCH_SIZE = 2
    /\ originStates = <<>>
    /\ originCities = [s \in StateUniverse |-> <<>>]
    /\ originPages = 1
    /\ originItems = [c \in CityUniverse |-> 0]
    /\ envFaults = FALSE
    /\ InitRun

NextRL ==
    \/ \E t \in Callers : LimiterCheck(t)
    \/ \E t \in Callers : LimiterWake(t)
    \/ \E t \in Callers : LimiterStamp(t)
    \/ \E t \in Callers : LimiterCancel(t)
    \/ Tick

SpecRL == InitRL /\ [][NextRL]_vars


---------------------------------------------------------------------------
(* The crawl run twice against the same database and an origin that       *)
(* answers a request the same way in both runs, with no failed call and   *)
(* no timeout.                                                            *)

\* the page the unchanged origin serves for page p of city c: as many
\* items as the city has a page, the first item of "c2" and the second of
\* "c4" without the attributes process_single_clinician needs, and a
\* "next" link on every page but the last
StablePage(c, p) ==
    [kind |-> "page",
     items |-> [i \in 1..originItems[c] |->
                  ~(c = "c2" /\ i = 1) /\ ~(c = "c4" /\ i = 2)],
     next |-> p < originPages]

\* the program is started again: a new process with the same
\* configuration, against the database the first run left
Rerun ==
    /\ mainpc = "closed"
    /\ run = 1
    /\ run' = 2
    /\ rows1' = rows
    /\ mainpc' = "start"
    /\ STATES' = <<>>
    /\ batch_i' = 0
    /\ batch_states' = <<>>
    /\ total_records' = 0
    /\ total_states_processed' = 0
    /\ report' = "none"
    /\ upc' = [s \in StateUniverse |-> "pending"]
    /\ tasks' = [s \in StateUniverse |-> <<>>]
    /\ uresult' = [s \in StateUniverse |-> 0]
    /\ cityErrors' = {}
    /\ wpc' = [c \in CityUniverse |-> "none"]
    /\ page' = [c \in CityUniverse |-> 1]
    /\ total_city_records' = [c \in CityUniverse |-> 0]
    /\ raw_pages_batch' = [c \in CityUniverse |-> <<>>]
    /\ clinicians_batch' = [c \in CityUniverse |-> <<>>]
    /\ wresult' = [c \in CityUniverse |-> 0]
    /\ semaphore' = 0
    /\ requested' = [c \in CityUniverse |-> <<>>]
    /\ processed' = [c \in CityUniverse |-> 0]
    /\ lastResp' = [c \in CityUniverse |-> "nothing"]
    /\ appended' = [c \in CityUniverse |-> <<>>]
    /\ flushLog' = [c \in CityUniverse |-> <<>>]
    /\ acquires' = [c \in CityUniverse |-> 0]
    /\ releases' = [c \in CityUniverse |-> 0]
    /\ printed' = {}
    /\ UNCHANGED <<confVars, originVars, clinicians, raw_pages, rows, callLog,
                   rlVars, sideVars>>

InitRerun ==
    /\ SCRAPE_LIMIT \in {0, 1}
    /\ MAX_CONCURRENT_REQUESTS = 2
    /\ BATCH_SIZE = 2
    /\ originStates = CrawlStates
    /\ originCities = CapCities
    /\ originPages = 2
    /\ originItems \in [CityUniverse -> 0..MaxItems]
    /\ \A c \in {"c3", "c5"} : originItems[c] = 0
    /\ envFaults = FALSE
    /\ InitRun
    /\ InitLimiterIdle

NextRerun ==
    \/ MainStart("ok", originStates)
    \/ \E B \in SUBSET StateUniverse : \E enum \in [B -> {"ok"}] :
          MainLaunchBatch(enum)
    \/ MainBatchDone
    \/ MainFinish
    \/ \E s \in StateUniverse : StateGathered(s)
    \/ \E c \in CityUniverse : CityEnter(c)
    \/ \E c \in CityUniverse : FetchIssue(c)
    \/ \E c \in CityUniverse : FetchReturn(c, StablePage(c, page[c]), "ok", "ok")
    \/ \E c \in CityUniverse : CityFinish(c, "ok", "ok")
    \/ Rerun

SpecRerun == InitRerun /\ [][NextRerun]_vars

---------------------------------------------------------------------------
(* process_clinicians_batch (scrape.py:206-232) on its own: batches of     *)
(* records with few natural keys and payloads, written one call after the  *)
(* other into the collection.                                              *)

UpsertKeys == {"k1", "k2"}
UpsertPayloads == {"p1", "p2"}
UpsertBatches ==
    UNION {[1..n -> [key : UpsertKeys, payload : UpsertPayloads]] :
             n \in 1..MaxBatch}

\* the orders in which a server may apply n operations of a bulk write
\* sent with ordered=False
Orders(n) == {f \in [1..n -> 1..n] : \A i, j \in 1..n : f[i] = f[j] => i = j}

\* one call: the operations are built in the order of the batch, the
\* server applies them in an order of its own, and the call returns
UpsertCall(ops, ord, outcome) ==
    /\ Len(callLog) < MaxCalls
    /\ LET now == Len(callLog) + 1
           served == [i \in 1..Len(ops) |-> ops[ord[i]]]
       IN  /\ rows' = bulk_write(rows, served, outcome, now)
           /\ callLog' = Append(callLog, [ops |-> ops, served |-> served,
                                          outcome |-> outcome,
                                          ret |-> BatchReturn(ops, outcome)])
    /\ UNCHANGED <<crawlVars, rlVars, sideVars, printed, run, rows1>>

InitUpsert ==
    /\ SCRAPE_LIMIT = 0
    /\ MAX_CONCURRENT_REQUESTS = 2
    /\ BATCH_SIZE = 2
    /\ originStates = <<>>
    /\ originCities = [s \in StateUniverse |-> <<>>]
    /\ originPages = 1
    /\ originItems = [c \in CityUniverse |-> 0]
    /\ envFaults = TRUE
    /\ InitRun
    /\ InitLimiterIdle

NextUpsert ==
    \E ops \in UpsertBatches : \E ord \in Orders(Len(ops)) :
       \E outcome \in WriteOutcomes : UpsertCall(ops, ord, outcome)

SpecUpsert == InitUpsert /\ [][NextUpsert]_vars

---------------------------------------------------------------------------
(* store_data on its own, and the page walk of the headway scraper; the    *)
(* therapyfinder crawl stays where it starts.                              *)

InitSide ==
    /\ SCRAPE_LIMIT = 0
    /\ MAX_CONCURRENT_REQUESTS = 2
    /\ BATCH_SIZE = 2
    /\ originStates = CrawlStates
    /\ originCities = CrawlCities
    /\ originPages = 1
    /\ originItems = [c \in CityUniverse |-> 0]
    /\ envFaults = FALSE
    /\ InitCrawl
    /\ InitLimiterIdle

InitSpecAlma == InitSide /\ InitHeadway /\ InitAlma

NextAlma ==
    \E rec \in AlmaRecords, outcome \in {"ok", "db_error", "save_error"} :
       store_data(rec, outcome)

SpecAlma == InitSpecAlma /\ [][NextAlma]_vars

InitSpecHeadway == InitSide /\ InitHeadway /\ InitAlmaEmpty

NextHeadway == \E r \in HwResponses : HeadwayMain(r)

SpecHeadway == InitSpecHeadway /\ [][NextHeadway]_vars

---------------------------------------------------------------------------
(* Properties *)

Cities == CityUniverse
Inside == {c \in Cities : wpc[c] \in Holding}
\* the cities the origin lists
Listed == {c \in Cities : \E s \in StateUniverse : c \in Range(originCities[s])}
\* the batches a city task has passed to process_clinicians_batch, and the
\* records in them, in order
Batches(c) == [i \in 1..Len(flushLog[c]) |-> flushLog[c][i].batch]
Handed(c) == Flatten(Batches(c))
FailedFlushes(c) == {i \in 1..Len(flushLog[c]) : ~flushLog[c][i].ok}
NoRepeat(q) == \A i \in 1..Len(q), j \in 1..Len(q) : q[i] = q[j] => i = j

\* the admissions stamped in the window of one period that ends at t
AdmittedInWindow(t) ==
    {i \in 1..Len(admitted) : admitted[i] <= t /\ t - admitted[i] < period}

\* C1: at every instant t, whatever the interleaving of the callers of
\* acquire, at most max_calls admissions carry a timestamp in the window
\* of one period that ends at t.
C1_RateBound ==
    \A t \in 0..MaxTime : Cardinality(AdmittedInWindow(t)) <= max_calls

\* C1 happens: more callers were admitted than the window holds, one of
\* them after the window had been full, and some window is full now
C1_Witness ==
    /\ Len(admitted) > max_calls
    /\ \E t \in 0..MaxTime : Cardinality(AdmittedInWindow(t)) = max_calls
    /\ \E t \in Callers : rlpc[t] = "sleep"

\* C2: over all states being scraped, at most MAX_CONCURRENT_REQUESTS city
\* tasks are inside "async with semaphore" at any moment.
C2_ConcurrencyBound == Cardinality(Inside) <= MAX_CONCURRENT_REQUESTS

\* C2 happens: the gate is full with cities of two states inside and
\* another city waiting at it
C2_Witness ==
    /\ Cardinality(Inside) = MAX_CONCURRENT_REQUESTS
    /\ \E c \in Inside, d \in Inside : StateOf(c) # StateOf(d)
    /\ \E c \in Cities : wpc[c] = "gate"

\* C3: a city task that took a slot of the gate gives it back exactly
\* once, whether it returns, raises or is cancelled by the timeout of its
\* state; a task takes at most one slot, and the free slots and the tasks
\* inside always add up to MAX_CONCURRENT_REQUESTS, so with no task inside
\* every slot is free again.
C3_SlotReleasedOnce ==
    /\ \A c \in Cities :
          /\ acquires[c] <= 1
          /\ wpc[c] \in Holding => acquires[c] = 1 /\ releases[c] = 0
          /\ wpc[c] \in {"returned", "raised"} => acquires[c] = 1
          /\ wpc[c] \in Ended => releases[c] = acquires[c]
          /\ wpc[c] \in {"none", "gate"} => acquires[c] = 0 /\ releases[c] = 0
    /\ STATES # <<>> =>
          semaphore + Cardinality(Inside) = MAX_CONCURRENT_REQUESTS

\* C3 happens: one task returned, one raised and one was cancelled while
\* inside the gate, and every slot is free again
C3_Witness ==
    /\ \E c \in Cities, d \in Cities, e \in Cities :
          /\ wpc[c] = "returned"
          /\ wpc[d] = "raised"
          /\ wpc[e] = "cancelled" /\ acquires[e] = 1
    /\ Inside = {}
    /\ semaphore = MAX_CONCURRENT_REQUESTS

\* C4: the pages a city task has requested are 1, 2, 3, ... without a
\* gap, and the request for page N + 1 is issued only after the response
\* to page N has been mapped and buffered.
C4_PagesInCursorOrder ==
    \A c \in Cities :
       /\ \A i \in 1..Len(requested[c]) : requested[c][i] = i
       /\ Len(requested[c]) <= processed[c] + 1

\* C4 happens: a task has requested its third page
C4_Witness ==
    \E c \in Cities : Len(requested[c]) = 3 /\ processed[c] = 2

\* C5: once the response to page k is a non-empty page without a "next"
\* link, the task has issued exactly k requests and issues no other: it is
\* past its loop.
C5_StopsWithoutNextLink ==
    \A c \in Cities :
       lastResp[c] = "last" =>
          /\ wpc[c] \notin {"gate", "acquire", "get"}
          /\ Len(requested[c]) = page[c]
          /\ processed[c] = page[c]

\* C5 happens: "next" on page 1, none on page 2, two requests, returned
C5_Witness ==
    \E c \in Cities :
       /\ lastResp[c] = "last"
       /\ wpc[c] = "returned"
       /\ requested[c] = <<1, 2>>


\* C6: with no record cap, a city task whose every response is a
\* non-empty page with a "next" link requests at most MaxPages pages.
C6_MaxPageGuard ==
    SCRAPE_LIMIT = 0 => \A c \in Cities : Len(requested[c]) <= MaxPages

\* C7 as stated: every threshold flush carries exactly BATCH_SIZE records
\* and the pending buffer never holds more than BATCH_SIZE.
C7_FlushesExactlyBatchSize ==
    \A c \in Cities :
       /\ Len(clinicians_batch[c]) <= BATCH_SIZE
       /\ \A i \in 1..Len(flushLog[c]) :
             flushLog[c][i].kind = "threshold" =>
                Len(flushLog[c][i].batch) = BATCH_SIZE

\* C7, amended: the buffer is tested once a page has been mapped and then
\* flushed whole, so a threshold flush carries at least BATCH_SIZE records
\* and fewer than BATCH_SIZE plus the items of the page that filled it;
\* between two pages the buffer holds fewer than BATCH_SIZE records; the
\* final flush comes last and carries a non-empty remainder smaller than
\* BATCH_SIZE.
C7_FlushAtLeastBatchSize ==
    \A c \in Cities :
       /\ Len(clinicians_batch[c]) < BATCH_SIZE
       /\ \A i \in 1..Len(flushLog[c]) :
             LET f == flushLog[c][i]
             IN  /\ f.kind = "threshold" =>
                       /\ Len(f.batch) >= BATCH_SIZE
                       /\ Len(f.batch) < BATCH_SIZE + f.items
                 /\ f.kind = "final" =>
                       /\ i = Len(flushLog[c])
                       /\ Len(f.batch) > 0
                       /\ Len(f.batch) < BATCH_SIZE

\* C7 happens: a threshold flush of more than BATCH_SIZE records, then a
\* final flush of the remainder
C7_Witness ==
    \E c \in Cities :
       /\ Len(flushLog[c]) = 2
       /\ flushLog[c][1].kind = "threshold"
       /\ Len(flushLog[c][1].batch) > BATCH_SIZE
       /\ flushLog[c][2].kind = "final"

\* C8: when a city task returns (no "next" link, an empty page, a failed
\* fetch or the cap), the records it passed to process_clinicians_batch
\* are the records it appended to its buffer, each once and in order, and
\* their number is the count it returns.
C8_EveryRecordHandedOnce ==
    \A c \in Cities :
       wpc[c] = "returned" =>
          /\ Handed(c) = appended[c]
          /\ NoRepeat(Handed(c))
          /\ Len(Handed(c)) = wresult[c]

\* C8 happens: a task returned after a threshold flush and a final flush
\* of records from several pages
C8_Witness ==
    \E c \in Cities :
       /\ wpc[c] = "returned"
       /\ Len(flushLog[c]) >= 2
       /\ wresult[c] >= 3
       /\ page[c] >= 2

\* C9: while a city task runs, the records of a flush whose write failed
\* are still in its buffer.
C9_BufferKeptOnFailedFlush ==
    \A c \in Cities :
       wpc[c] \in Holding =>
          \A i \in FailedFlushes(c) :
             Range(flushLog[c][i].batch) \subseteq Range(clinicians_batch[c])

\* C10: when the run has completed and every state was gathered without
\* a timeout, every city one of whose flushes failed is among the cities
\* reported as failed (the half of "exactly the failed sub-units are
\* reported" that a storage failure is about).
C10_FailedCitiesReported ==
    (report = "completed" /\ \A s \in StateUniverse : upc[s] = "done") =>
       {c \in Cities : FailedFlushes(c) # {}} \subseteq cityErrors

RowsOf(k) == {d \in BagToSet(rows) : d.clinician_id = k}
LastPayload(ops, k) ==
    LET last == CHOOSE i \in 1..Len(ops) :
                   /\ ops[i].key = k
                   /\ \A j \in 1..Len(ops) : ops[j].key = k => j <= i
    IN  ops[last].payload

\* C12: after a call whose write was accepted, every natural key of its
\* batch has exactly one document in the collection, and that document
\* carries the payload of the last record of the batch with that key;
\* the previous call, or an earlier record of the same batch, has lost.
C12_LaterPayloadWins ==
    callLog # <<>> =>
       LET call == callLog[Len(callLog)]
       IN  call.outcome = "ok" =>
              \A i \in 1..Len(call.ops) :
                 LET k == call.ops[i].key
                 IN  /\ BagCardinality(rows) >= 1
                     /\ Cardinality(RowsOf(k)) = 1
                     /\ CopiesIn(CHOOSE d \in RowsOf(k) : TRUE, rows) = 1
                     /\ \A d \in RowsOf(k) :
                           d.payload = LastPayload(call.ops, k)

\* the natural keys of the documents of a collection
KeysOf(coll) == {d.clinician_id : d \in BagToSet(coll)}

\* C13: all through a second run against an origin that answers as it did
\* in the first (no failed call, no timeout in either run), the
\* collection holds as many documents as the first run left, under the
\* same natural keys: every upsert of the second run hits a document.
C13_RerunAddsNothing ==
    run = 2 =>
       /\ BagCardinality(rows) = BagCardinality(rows1)
       /\ KeysOf(rows) = KeysOf(rows1)
       /\ KeysOf(rows) = clinicians

\* C13 happens: the second run has completed, it has written again the
\* three or more documents the first run left, and they carry its time
C13_Witness ==
    /\ run = 2
    /\ report = "completed"
    /\ BagCardinality(rows1) >= 3
    /\ \A d \in BagToSet(rows) : d.payload.scraped_at = 2 /\ d.created_at = 1

\* the operations of a call the server applied
Accepted(call) ==
    IF call.outcome = "ok" THEN call.served
    ELSE IF call.outcome = "reject_first" THEN Tail(call.served)
    ELSE <<>>

\* C14: after a call one operation of which the store rejected, the keys
\* of the other operations have their documents, and the call returns how
\* many operations were accepted, so that with the rejected ones the
\* batch is accounted for.
C14_PartialSuccessReported ==
    callLog # <<>> =>
       LET call == callLog[Len(callLog)]
       IN  call.outcome = "reject_first" =>
              /\ \A i \in 1..Len(Accepted(call)) :
                    RowsOf(Accepted(call)[i].key) # {}
              /\ call.ret = Len(Accepted(call))

\* the states one of whose city tasks was cancelled
CancelledStates ==
    {s \in StateUniverse : \E c \in Range(tasks[s]) : wpc[c] = "cancelled"}

\* C15: a state whose city tasks were still running when its timeout
\* expired is printed as timed out and never as completed, and a state
\* printed as completed had every city task end on its own, so the output
\* tells the two apart.
C15_TimeoutReported ==
    \A s \in StateUniverse :
       /\ s \in CancelledStates =>
             /\ <<"timeout", s>> \in printed
             /\ <<"completed_state", s>> \notin printed
       /\ <<"completed_state", s>> \in printed =>
             /\ <<"timeout", s>> \notin printed
             /\ \A c \in Range(tasks[s]) : wpc[c] \in {"returned", "raised"}

\* C15 happens: the run is over with one state printed as timed out and
\* the other as completed
C15_Witness ==
    /\ report = "completed"
    /\ \E s \in StateUniverse, u \in StateUniverse :
          /\ s \in CancelledStates
          /\ <<"timeout", s>> \in printed
          /\ <<"completed_state", u>> \in printed

\* the city tasks of the states that timed out
TimedOutTasks ==
    UNION {Range(tasks[s]) : s \in {x \in StateUniverse : upc[x] = "timeout"}}
\* the records of the flushes of a city whose write was accepted
Written(c) ==
    UNION {Range(flushLog[c][i].batch) :
             i \in {j \in 1..Len(flushLog[c]) : flushLog[c][j].ok}}

\* once a state has timed out, each of its city tasks has ended, and
\* what those tasks had written is in the collection
C16_AllEnded ==
    \A c \in TimedOutTasks :
       /\ wpc[c] \in Ended
       /\ \A rec \in Written(c) : clinician_id(rec) \in clinicians

\* a step leaves the requests and the flushes of the city tasks of a
\* timed-out state as they are, and takes no document out of either
\* collection
C16_NoFurtherWork ==
    /\ \A c \in TimedOutTasks :
          /\ requested'[c] = requested[c]
          /\ flushLog'[c] = flushLog[c]
          /\ wpc'[c] = wpc[c]
    /\ clinicians \subseteq clinicians'
    /\ raw_pages \sqsubseteq raw_pages'

\* C16: after the timeout of a state every city task launched for it is
\* over, cancelled unless it had ended before, and none of them issues a
\* page request or a write again, while every record they wrote before
\* the timeout stays in the collection.
C16_TimeoutCancels == [](C16_AllEnded) /\ [][C16_NoFurtherWork]_vars

\* C16 happens: a state timed out with one city task cancelled after it
\* had written a record, which is stored, and another cancelled while its
\* request was out; the run went on to the next state
C16_Witness ==
    \E c \in TimedOutTasks, d \in TimedOutTasks :
       /\ wpc[c] = "cancelled" /\ Written(c) # {}
       /\ \A rec \in Written(c) : clinician_id(rec) \in clinicians
       /\ wpc[d] = "cancelled" /\ requested[d] = <<1>> /\ processed[d] = 0
       /\ \E e \in Listed : StateOf(e) # StateOf(c) /\ wpc[e] = "returned"

\* the records admitted so far over the whole run
AdmittedRecords ==
    SumSeq([i \in 1..5 |->
              Len(appended[<<"c1", "c2", "c3", "c4", "c5">>[i]])])

\* C17: under a record cap, once the records admitted over the run have
\* reached it no city task is created any more, in the state being
\* scraped or in a later one.
C17_NoLaunchAfterCap ==
    [][(SCRAPE_LIMIT > 0 /\ AdmittedRecords >= SCRAPE_LIMIT) =>
          \A c \in Cities : wpc[c] = "none" => wpc'[c] = "none"]_vars

\* C18: with the states enumerated, the run does not end on an exception:
\* when main is over it has printed its totals.
C18_RunCompletesAndReports ==
    (mainpc = "closed" /\ STATES # <<>>) => report = "completed"

\* C19: when a run that enumerated its states is over, the exit status is
\* not 0 exactly when a state failed or timed out.
C19_ExitStatusReflectsUnits ==
    (mainpc = "closed" /\ STATES # <<>>) =>
       (ExitStatus # 0 <=>
          \E s \in StateUniverse : upc[s] \in {"timeout", "error"})

\* the requests a city task has issued for a page
RequestsOf(c, p) == {i \in 1..Len(requested[c]) : requested[c][i] = p}

\* C20: a city task that left its loop because a fetch failed had asked
\* for the failed page more than once.
C20_FetchRetried ==
    \A c \in Cities :
       (lastResp[c] = "none" /\ wpc[c] \in {"closing", "returned"}) =>
          Cardinality(RequestsOf(c, page[c])) > 1

\* C21: a city task whose last response had an unexpected shape ends by
\* returning, not by raising, and by then every record it had buffered
\* from earlier pages has been passed to process_clinicians_batch.
C21_MalformedHandled ==
    \A c \in Cities :
       (/\ lastResp[c] = "malformed"
        /\ wpc[c] \in {"returned", "raised"}
        /\ appended[c] # <<>>) =>
          /\ wpc[c] = "returned"
          /\ Handed(c) = appended[c]

\* the records of the items of a page that can be mapped, in page order,
\* from item i on, and those of the pages of a city from page p on
RECURSIVE MappableOf(_, _, _, _)
MappableOf(items, i, c, p) ==
    IF i > Len(items) THEN <<>>
    ELSE (IF items[i] THEN <<[city |-> c, page |-> p, idx |-> i]>> ELSE <<>>)
         \o MappableOf(items, i + 1, c, p)
RECURSIVE MappableFrom(_, _)
MappableFrom(c, p) ==
    IF p > originPages \/ originItems[c] = 0 THEN <<>>
    ELSE MappableOf(StablePage(c, p).items, 1, c, p) \o MappableFrom(c, p + 1)
UpToCap(s) ==
    IF SCRAPE_LIMIT > 0 /\ Len(s) > SCRAPE_LIMIT
    THEN SubSeq(s, 1, SCRAPE_LIMIT) ELSE s

\* C22: a city task that walked its pages has appended one record for
\* every item that could be mapped, in page order and up to the cap, and
\* none for an item that could not: an item that fails costs the page
\* nothing but itself.
C22_MappingErrorItemScoped ==
    \A c \in Cities :
       /\ wpc[c] = "returned" => appended[c] = UpToCap(MappableFrom(c, 1))
       /\ \A i \in 1..Len(appended[c]) :
             LET rec == appended[c][i]
             IN  StablePage(c, rec.page).items[rec.idx]

\* C22 happens: with two items a page, one city returned with the second
\* item of each page and without the first, another with the first and
\* without the second
C22_Witness ==
    /\ wpc["c2"] = "returned" /\ wpc["c4"] = "returned"
    /\ originItems["c2"] = 2 /\ originItems["c4"] = 2
    /\ appended["c2"] = <<[city |-> "c2", page |-> 1, idx |-> 2],
                          [city |-> "c2", page |-> 2, idx |-> 2]>>
    /\ appended["c4"] = <<[city |-> "c4", page |-> 1, idx |-> 1],
                          [city |-> "c4", page |-> 2, idx |-> 1]>>

C24_LockFreeWhileWaiting ==
    \A t \in Callers : rlpc[t] = "sleep" => lock = "free"

\* C25: the raw_pages collection holds at most one snapshot for a state,
\* a city and a page.
C25_SnapshotUnique ==
    \A d \in BagToSet(raw_pages) : CopiesIn(d, raw_pages) <= 1

\* C26: between two calls of acquire (the lock is free), whatever the
\* interleaving of the callers, the list of timestamps has at most
\* max_calls entries in non-decreasing order, and once a caller has been
\* admitted its last entry is the time of the latest admission.
C26_WindowInvariant ==
    lock = "free" =>
       /\ Len(calls) <= max_calls
       /\ \A i \in 1..Len(calls), j \in 1..Len(calls) :
             i <= j => calls[i] <= calls[j]
       /\ admitted # <<>> =>
             /\ calls # <<>>
             /\ calls[Len(calls)] = admitted[Len(admitted)]

\* C26 happens: more callers than the window holds have been admitted,
\* one of them after a sleep, and the list is full
C26_Witness ==
    /\ lock = "free"
    /\ Len(admitted) > max_calls
    /\ Len(calls) = max_calls
    /\ max_calls >= 2
    /\ calls[1] < calls[Len(calls)]

\* C27: under a cap SCRAPE_LIMIT > 0 a city task never appends more than
\* SCRAPE_LIMIT records to its buffer, and it is on its way to a page
\* request only while its count is below the cap; with SCRAPE_LIMIT = 0 a
\* task never leaves its loop after a page that had a "next" link.
C27_CapRespected ==
    \A c \in Cities :
       /\ SCRAPE_LIMIT > 0 =>
             /\ Len(appended[c]) <= SCRAPE_LIMIT
             /\ total_city_records[c] <= SCRAPE_LIMIT
             /\ wpc[c] \in {"acquire", "get"} =>
                   total_city_records[c] < SCRAPE_LIMIT
       /\ SCRAPE_LIMIT = 0 =>
             (wpc[c] \in {"closing", "returned"} => lastResp[c] # "more")

\* C27 happens: a task returned at the cap, the last page it mapped cut
\* short and a further page of the city left unrequested
C27_Witness ==
    \E c \in Cities :
       /\ SCRAPE_LIMIT > 0
       /\ wpc[c] = "returned"
       /\ lastResp[c] = "more"
       /\ Len(appended[c]) = SCRAPE_LIMIT
       /\ wresult[c] = SCRAPE_LIMIT
       /\ Len(requested[c]) = 2
       /\ originItems[c] * 2 > SCRAPE_LIMIT

\* C28: with no record cap, whatever MAX_CONCURRENT_REQUESTS >= 1, once
\* main is over every enumerated state has been launched and has ended.
C28_EveryUnitLaunched ==
    (SCRAPE_LIMIT = 0 /\ MAX_CONCURRENT_REQUESTS >= 1
       /\ mainpc = "closed" /\ STATES # <<>>) =>
       \A i \in 1..Len(STATES) : upc[STATES[i]] \in UnitEnded

\* the calls of store_data made with a key
CallsWith(k) == {i \in 1..Len(storeLog) : storeLog[i].rec.sr_no = k}

\* C29: in local mode, after any calls of store_data, local_data holds no
\* "Sr. NO" twice, and for a key store_data was called with it holds the
\* record of the last such call.
C29_LocalUpsert ==
    ~use_mongodb =>
       /\ \A i \in 1..Len(local_data), j \in 1..Len(local_data) :
             local_data[i].sr_no = local_data[j].sr_no => i = j
       /\ \A k \in AlmaKeys :
             CallsWith(k) # {} =>
                LET last == CHOOSE i \in CallsWith(k) :
                               \A j \in CallsWith(k) : j <= i
                IN  \E i \in 1..Len(local_data) :
                       local_data[i] = storeLog[last].rec

\* C29 happens: a key already in the list loaded from the backup is stored
\* twice under different names, another key in between
C29_Witness ==
    /\ ~use_mongodb
    /\ Len(storeLog) = 3
    /\ storeLog[1].rec.sr_no = "k1" /\ storeLog[3].rec.sr_no = "k1"
    /\ storeLog[1].rec.Name # storeLog[3].rec.Name
    /\ storeLog[2].rec.sr_no = "k2"
    /\ Len(local_data) = 2
    /\ local_data[2] = storeLog[3].rec
    /\ Len(backup_file) = 2

\* the walk of the i-th state is over
HwOver(i) == hwpc = "done" \/ (hwpc = "walk" /\ i < hw_i)

\* every response of the state so far was an object reporting T pages
HwConstant(s, T) ==
    /\ hwSeen[s] # <<>>
    /\ \A k \in 1..Len(hwSeen[s]) :
          hwSeen[s][k].kind = "ok" /\ hwSeen[s][k].totalPages = T

\* C30: the pages requested of a state are 1, 2, ... in order; a state
\* whose walk is over and whose responses all reported T >= 1 pages was
\* asked for exactly the pages 1..T; a page whose load or parse failed is
\* the last requested of its state; and a state is walked only once the
\* walks of the states before it are over.
C30_PageWalk ==
    \A i \in 1..Len(HW_STATES) :
       LET s == HW_STATES[i]
       IN  /\ \A k \in 1..Len(hwRequested[s]) : hwRequested[s][k] = k
           /\ Len(hwSeen[s]) = Len(hwRequested[s])
           /\ \A T \in 1..HwMaxTotal :
                 (HwOver(i) /\ HwConstant(s, T)) => Len(hwRequested[s]) = T
           /\ \A k \in 1..Len(hwSeen[s]) :
                 hwSeen[s][k].kind \in HwFailures \cup {"not_object"} =>
                    Len(hwRequested[s]) = k
           /\ hwRequested[s] # <<>> => i <= hw_i
           /\ (i < hw_i \/ hwpc = "done") => hwRequested[s] # <<>>

\* C30 happens: the first state answered 3 pages every time and was asked
\* for pages 1, 2, 3; the second failed at its page 2 and the run is over
C30_Witness ==
    /\ hwpc = "done"
    /\ HwConstant(HW_STATES[1], HwMaxTotal)
    /\ hwRequested[HW_STATES[1]] = <<1, 2, 3>>
    /\ hwRequested[HW_STATES[2]] = <<1, 2>>
    /\ hwSeen[HW_STATES[2]][2].kind \in HwFailures

=============================================================================
